---- MODULE Spec2Model ----
(***************************************************************************)
(* TransInterped (tbilby/core/prior/TransInterped.py): an interpolated     *)
(* prior built from samples (xx, yy), with mutable minimum/maximum bounds, *)
(* a one-shot normalisation build and a rescale anchored to the bounds of  *)
(* construction.                                                           *)
(*                                                                         *)
(* Numbers.  A Python/numpy float is modelled as an exact rational <<n,d>> *)
(* in lowest terms with d > 0; nan is <<0,0>>.  Rounding error is not      *)
(* modelled: every arithmetic step is exact.                               *)
(*                                                                         *)
(* Arrays.  A numpy array is a record [ndim, cells]: cells is a sequence   *)
(* of cells, a cell being the sequence of the numbers at one position of   *)
(* the first axis (one number for a 1-D array, the row for a 2-D array).   *)
(* A bound (minimum, maximum) is a record [py, cell]: py is the Python     *)
(* type of the value ("float", "int", "ndarray"), cell its number(s).      *)
(***************************************************************************)
EXTENDS Integers, Sequences, FiniteSets, TLC

----------------------------------------------------------------------------
(* Bounds of the model.                                                    *)

\* x coordinates of the supplied samples are drawn from 0..MaxX
MaxX == 3
\* supplied densities are drawn from 0..MaxY
MaxY == 1
\* supplied sample arrays have 2..MaxLen entries
MaxLen == 3
\* at most MaxCalls setter calls are made on a constructed object
MaxCalls == 3
\* rescale is probed at the unit values k/UnitDen, k in 0..UnitDen
UnitDen == 4

----------------------------------------------------------------------------
(* Exact arithmetic with nan.                                              *)

NaN == <<0, 0>>

IsNaN(a) == a[2] = 0

Abs(i) == IF i < 0 THEN -i ELSE i

RECURSIVE GCD(_, _)
GCD(a, b) == IF b = 0 THEN a ELSE GCD(b, a % b)

\* the rational n/d (d # 0) in lowest terms
Rat(n, d) ==
    LET g == GCD(Abs(n), Abs(d))
        s == IF d < 0 THEN -1 ELSE 1
    IN  <<(s * n) \div g, (s * d) \div g>>

Num(i) == <<i, 1>>

Add(a, b) == IF IsNaN(a) \/ IsNaN(b) THEN NaN
             ELSE Rat(a[1] * b[2] + b[1] * a[2], a[2] * b[2])

Sub(a, b) == IF IsNaN(a) \/ IsNaN(b) THEN NaN
             ELSE Rat(a[1] * b[2] - b[1] * a[2], a[2] * b[2])

Mul(a, b) == IF IsNaN(a) \/ IsNaN(b) THEN NaN
             ELSE Rat(a[1] * b[1], a[2] * b[2])

\* numpy float division: 0/0 is nan.  A non-zero numerator over zero (inf)
\* is not distinguished from nan; it does not arise for non-negative
\* samples, where a zero integral means every sample is zero.
Div(a, b) == IF IsNaN(a) \/ IsNaN(b) \/ b[1] = 0 THEN NaN
             ELSE Rat(a[1] * b[2], a[2] * b[1])

\* IEEE comparisons: every comparison with nan is false
Lt(a, b) == ~IsNaN(a) /\ ~IsNaN(b) /\ a[1] * b[2] < b[1] * a[2]

Le(a, b) == ~IsNaN(a) /\ ~IsNaN(b) /\ a[1] * b[2] <= b[1] * a[2]

Eq(a, b) == ~IsNaN(a) /\ ~IsNaN(b) /\ a = b

----------------------------------------------------------------------------
(* Python and numpy helpers used by the class.                             *)

RECURSIVE py_min(_)
\* builtin min over a sequence of numbers
py_min(s) == IF Len(s) = 1 THEN s[1]
             ELSE LET m == py_min(Tail(s)) IN IF Lt(m, s[1]) THEN m ELSE s[1]

RECURSIVE py_max(_)
\* builtin max over a sequence of numbers
py_max(s) == IF Len(s) = 1 THEN s[1]
             ELSE LET m == py_max(Tail(s)) IN IF Lt(s[1], m) THEN m ELSE s[1]

\* np.nanmax(np.array((a, b))): the larger, ignoring a nan
nanmax(a, b) == IF IsNaN(a) THEN b ELSE IF IsNaN(b) THEN a
                ELSE IF Lt(a, b) THEN b ELSE a

\* np.nanmin(np.array((a, b))): the smaller, ignoring a nan
nanmin(a, b) == IF IsNaN(a) THEN b ELSE IF IsNaN(b) THEN a
                ELSE IF Lt(b, a) THEN b ELSE a

\* np.trapz(y, x) for 1-D sequences of numbers
RECURSIVE trapz(_, _)
trapz(y, x) ==
    IF Len(x) < 2 THEN Num(0)
    ELSE LET n == Len(x)
             seg == Mul(Mul(Sub(x[n], x[n-1]), Add(y[n], y[n-1])), <<1, 2>>)
         IN  Add(trapz(SubSeq(y, 1, n-1), SubSeq(x, 1, n-1)), seg)

\* scipy.integrate.cumtrapz(y, x, initial=0)
cumtrapz(y, x) == [i \in 1..Len(x) |-> trapz(SubSeq(y, 1, i), SubSeq(x, 1, i))]

\* broadcast of two cells (a scalar has one number)
Bcast(c, i) == IF Len(c) = 1 THEN c[1] ELSE c[i]

BLen(a, b) == IF Len(a) > Len(b) THEN Len(a) ELSE Len(b)

\* np.linspace(start, stop, num) for num >= 2, start and stop cells:
\* start + i*(stop-start)/(num-1), the last sample being stop itself
linspace(start, stop, num) ==
    [i \in 1..num |->
        [j \in 1..BLen(start, stop) |->
            IF i = num THEN Bcast(stop, j)
            ELSE Add(Bcast(start, j),
                     Mul(Rat(i - 1, num - 1),
                         Sub(Bcast(stop, j), Bcast(start, j))))]]

\* a 1-D array of the numbers s
Arr1(s) == [ndim |-> 1, cells |-> [i \in 1..Len(s) |-> <<s[i]>>]]

\* the numbers of a 1-D array
Flat(a) == [i \in 1..Len(a.cells) |-> a.cells[i][1]]

----------------------------------------------------------------------------
(* scipy.interpolate.interp1d, kind='linear'.                              *)

\* sort order of np.argsort: a nan sorts after every number
KeyLe(a, b) == IsNaN(b) \/ (~IsNaN(a) /\ Le(a, b))

RECURSIVE InsertSorted(_, _)
\* p placed after every entry of the sorted s that does not sort after it
InsertSorted(s, p) ==
    IF s = <<>> THEN <<p>>
    ELSE IF KeyLe(s[1][1], p[1]) THEN <<s[1]>> \o InsertSorted(Tail(s), p)
    ELSE <<p>> \o s

RECURSIVE SortPairs(_)
\* the pairs <<x_i, y_i>> in the stable ("mergesort") order of x
SortPairs(ps) ==
    IF ps = <<>> THEN <<>>
    ELSE InsertSorted(SortPairs(SubSeq(ps, 1, Len(ps) - 1)), ps[Len(ps)])

\* interp1d(x=x, y=y, bounds_error=.., fill_value=(below, above)):
\* x is sorted (assume_sorted=False) and y reordered with it
interp1d(x, y, bounds_error, below, above) ==
    LET ps == SortPairs([i \in 1..Len(x) |-> <<x[i], y[i]>>])
    IN  [x |-> [i \in 1..Len(x) |-> ps[i][1]],
         y |-> [i \in 1..Len(x) |-> ps[i][2]],
         bounds_error |-> bounds_error,
         fill_below |-> below,
         fill_above |-> above]

RECURSIVE LastLe(_, _, _)
\* np.interp's search: the last index i >= from with x[i] <= q
LastLe(x, q, from) ==
    IF from < Len(x) /\ Le(x[from + 1], q) THEN LastLe(x, q, from + 1) ELSE from

\* np.interp(q, f.x, f.y) for x[1] <= q <= x[Len(x)]
np_interp(f, q) ==
    LET j == LastLe(f.x, q, 1)
    IN  IF j = Len(f.x) THEN f.y[j]
        ELSE IF f.x[j] = q THEN f.y[j]
        ELSE LET slope == Div(Sub(f.y[j+1], f.y[j]), Sub(f.x[j+1], f.x[j]))
                 one == Add(Mul(slope, Sub(q, f.x[j])), f.y[j])
                 two == Add(Mul(slope, Sub(q, f.x[j+1])), f.y[j+1])
             IN  IF ~IsNaN(one) THEN one
                 ELSE IF ~IsNaN(two) THEN two
                 ELSE IF Eq(f.y[j], f.y[j+1]) THEN f.y[j] ELSE NaN

\* f(q) for an interpolant with bounds_error=False: linear between the
\* samples, the fill values outside them, nan at nan
Call(f, q) ==
    IF IsNaN(q) THEN NaN
    ELSE IF Lt(q, f.x[1]) THEN f.fill_below
    ELSE IF Lt(f.x[Len(f.x)], q) THEN f.fill_above
    ELSE np_interp(f, q)

\* f(a) for an array a: elementwise, same shape
CallArr(f, a) ==
    [ndim |-> a.ndim,
     cells |-> [i \in 1..Len(a.cells) |->
                  [j \in 1..Len(a.cells[i]) |-> Call(f, a.cells[i][j])]]]

----------------------------------------------------------------------------
(* class TransInterped(bilby.core.prior.Prior).                            *)

\* the value of a name not bound to an object
None == [cls |-> "NoneType"]

\* a Python float as a bound
Float(r) == [py |-> "float", cell |-> <<r>>]

\* a Python int as a bound
PyInt(i) == [py |-> "int", cell |-> <<Num(i)>>]

\* a 1-D numpy array as a bound
NdArray(s) == [py |-> "ndarray", cell |-> s]

\* the outcome of a call: the object as the call leaves it, and the
\* exception it raises ("none" when it returns)
Returns(obj) == [obj |-> obj, exc |-> "none"]

Raises(obj, exc) == [obj |-> obj, exc |-> exc]

\* any(value < limit): the builtin any() iterates its argument, so the bool
\* of a scalar comparison is a TypeError; an array compares elementwise
AnyBelow(value, limit) ==
    IF value.py = "ndarray"
    THEN IF \E i \in 1..Len(value.cell) : Lt(value.cell[i], limit)
         THEN "True" ELSE "False"
    ELSE "TypeError"

AnyAbove(value, limit) ==
    IF value.py = "ndarray"
    THEN IF \E i \in 1..Len(value.cell) : Lt(limit, value.cell[i])
         THEN "True" ELSE "False"
    ELSE "TypeError"

\* @minimum.setter
minimum_setter(obj, minimum) ==
    IF minimum.py = "float"
    THEN IF Lt(minimum.cell[1], obj.min_limit)
         THEN Raises(obj, "ValueError")
         ELSE Returns([obj EXCEPT !._minimum = minimum])
    ELSE CASE AnyBelow(minimum, obj.min_limit) = "TypeError" ->
                Raises(obj, "TypeError")
           [] AnyBelow(minimum, obj.min_limit) = "True" ->
                Raises(obj, "ValueError")
           [] OTHER -> Returns([obj EXCEPT !._minimum = minimum])

\* @maximum.setter
maximum_setter(obj, maximum) ==
    IF maximum.py = "float"
    THEN IF Lt(obj.max_limit, maximum.cell[1])
         THEN Raises(obj, "ValueError")
         ELSE Returns([obj EXCEPT !._maximum = maximum])
    ELSE CASE AnyAbove(maximum, obj.max_limit) = "TypeError" ->
                Raises(obj, "TypeError")
           [] AnyAbove(maximum, obj.max_limit) = "True" ->
                Raises(obj, "ValueError")
           [] OTHER -> Returns([obj EXCEPT !._maximum = maximum])

\* fault: the guard never holds, every update rebuilds
already_initialized_never(obj) == FALSE

\* the one-shot guard of _initialize_attributes
already_initialized(obj) == obj.init_once

\* Normalizer_calc: x -> unnormalised cumulative integral
normalizer_interpolant(xx, YYnotNorm) ==
    interp1d(xx, YYnotNorm, FALSE, Num(0), Num(0))

\* fault: x and y not swapped for the inverse
inv_normalizer_interpolant_unswapped(YYnotNorm, xx) ==
    interp1d(xx, YYnotNorm, FALSE, Num(0), Num(0))

\* Inv_Normalizer_calc: unnormalised cumulative integral -> x
inv_normalizer_interpolant(YYnotNorm, xx) ==
    interp1d(YYnotNorm, xx, FALSE, Num(0), Num(0))

\* probability_density: x -> normalised density, 0 outside the grid
density_interpolant(xx, yy) ==
    interp1d(xx, yy, FALSE, Num(0), Num(0))

\* fault: the samples are left unnormalised
normalise_skipped(yy, total) == yy

\* self._yy /= np.trapz(self._yy, self.xx)
normalise(yy, total) == [i \in 1..Len(yy) |-> Div(yy[i], total)]

\* fault: the cdf filled with 0 on both sides, like the density
cumulative_interpolant_zero_fill(xx, YY) ==
    interp1d(xx, YY, FALSE, Num(0), Num(0))

\* cumulative_distribution: x -> cumulative probability, 0 below, 1 above
cumulative_interpolant(xx, YY) ==
    interp1d(xx, YY, FALSE, Num(0), Num(1))

\* _initialize_attributes: build the unnormalised pair, normalise _yy,
\* build the density, the cdf and its inverse, set the guard
_initialize_attributes(obj) ==
    IF already_initialized(obj) THEN obj
    ELSE LET xx == Flat(obj.xx)
             yy == Flat(obj._yy)
             YYnotNorm == cumtrapz(yy, xx)
             total == trapz(yy, xx)
             yy_norm == normalise(yy, total)
             cum == cumtrapz(yy_norm, xx)
             YY == [cum EXCEPT ![Len(cum)] = Num(1)]
         IN  [obj EXCEPT
                !.YYnotNorm = YYnotNorm,
                !.Normalizer_calc = normalizer_interpolant(xx, YYnotNorm),
                !.Inv_Normalizer_calc =
                    inv_normalizer_interpolant(YYnotNorm, xx),
                !._yy = Arr1(yy_norm),
                !.YY = YY,
                !.probability_density = density_interpolant(xx, yy_norm),
                !.cumulative_distribution = cumulative_interpolant(xx, YY),
                !.inverse_cumulative_distribution =
                    interp1d(YY, xx, TRUE, NaN, NaN),
                !.init_once = TRUE]

\* fault: the grid is not resampled between the bounds
resampled_grid_stale(obj) == obj.xx

\* the grid of _update_instance: np.linspace(minimum, maximum, len(xx)),
\* 1-D for float bounds, one row per sample for array bounds
resampled_grid(obj) ==
    [ndim |-> IF obj._minimum.py = "float" /\ obj._maximum.py = "float"
              THEN 1 ELSE 2,
     cells |-> linspace(obj._minimum.cell, obj._maximum.cell,
                        Len(obj.xx.cells))]

\* _update_instance: resample xx between the bounds and _yy on it
_update_instance(obj) ==
    LET xx == resampled_grid(obj)
    IN  _initialize_attributes(
            [obj EXCEPT !.xx = xx,
                        !._yy = CallArr(obj.all_interpolated, xx)])

\* @yy.setter: interp1d refuses an x that is not 1-D, after _yy was stored
yy_setter(obj, yy) ==
    LET stored == [obj EXCEPT !._yy = Arr1(yy)]
    IN  IF obj.xx.ndim # 1 \/ Len(obj.xx.cells) # Len(yy)
        THEN Raises(stored, "ValueError")
        ELSE Returns(_update_instance(
                [stored EXCEPT !.all_interpolated =
                    interp1d(Flat(obj.xx), yy, FALSE, Num(0), Num(0))]))

\* fault: nanmin where nanmax is meant
resolve_minimum_nanmin(xx, minimum) == nanmin(py_min(xx), minimum)

\* line 53: the caller's minimum clamped to the samples
resolve_minimum(xx, minimum) == nanmax(py_min(xx), minimum)

\* line 54: the caller's maximum clamped to the samples
resolve_maximum(xx, maximum) == nanmin(py_max(xx), maximum)

\* bilby.core.prior.Prior.__init__, the base constructor called on lines
\* 59-60; its code is not part of this repository.  By the contract of
\* construction it fails when the resolved minimum exceeds the resolved
\* maximum; it then assigns minimum and maximum through the property
\* setters of the subclass.
Prior__init__(obj, minimum, maximum) ==
    IF Lt(maximum, minimum) THEN Raises(obj, "ValueError")
    ELSE LET a == minimum_setter(obj, Float(minimum))
             b == maximum_setter(a.obj, Float(maximum))
         IN  IF a.exc # "none" THEN a ELSE b

\* TransInterped.__init__(xx, yy, minimum, maximum): xx, yy sequences of
\* numbers, minimum and maximum floats (nan when not supplied)
__init__(xx, yy, minimum, maximum) ==
    LET lo == resolve_minimum(xx, minimum)
        hi == resolve_maximum(xx, maximum)
        fresh == [cls |-> "TransInterped",
                  xx |-> Arr1(xx),
                  min_limit |-> py_min(xx),
                  max_limit |-> py_max(xx),
                  _yy |-> Arr1(yy),
                  YY |-> <<>>,
                  probability_density |-> None,
                  cumulative_distribution |-> None,
                  inverse_cumulative_distribution |-> None,
                  all_interpolated |-> interp1d(xx, yy, FALSE, Num(0), Num(0)),
                  trans_min |-> lo,
                  trans_max |-> hi,
                  init_once |-> FALSE,
                  _minimum |-> Float(NaN),
                  _maximum |-> Float(NaN),
                  YYnotNorm |-> <<>>,
                  Normalizer_calc |-> None,
                  Inv_Normalizer_calc |-> None]
        base == Prior__init__(fresh, lo, hi)
    IN  IF base.exc # "none" THEN Raises(None, base.exc)
        ELSE Returns(_update_instance(base.obj))

\* __eq__
__eq__(a, b) ==
    IF a.cls # b.cls THEN FALSE
    ELSE /\ a.xx.ndim = b.xx.ndim
         /\ Len(a.xx.cells) = Len(b.xx.cells)
         /\ \A i \in 1..Len(a.xx.cells) :
               /\ Len(a.xx.cells[i]) = Len(b.xx.cells[i])
               /\ \A j \in 1..Len(a.xx.cells[i]) :
                     Eq(a.xx.cells[i][j], b.xx.cells[i][j])
         /\ a._yy.ndim = b._yy.ndim
         /\ Len(a._yy.cells) = Len(b._yy.cells)
         /\ \A i \in 1..Len(a._yy.cells) :
               /\ Len(a._yy.cells[i]) = Len(b._yy.cells[i])
               /\ \A j \in 1..Len(a._yy.cells[i]) :
                     Eq(a._yy.cells[i][j], b._yy.cells[i][j])

\* prob(val) for a number val
prob(obj, val) == Call(obj.probability_density, val)

\* cdf(val) for a number val
cdf(obj, val) == Call(obj.cumulative_distribution, val)

\* fault: rescale anchored to the current minimum
rescale_low_current(obj) == obj._minimum.cell[1]

\* the bounds rescale is anchored to
rescale_low(obj) == obj.trans_min

rescale_high(obj) == obj.trans_max

\* rescale(val) for a number val
rescale(obj, val) ==
    LET y_mins == Call(obj.Normalizer_calc, rescale_low(obj))
        y_max == Call(obj.Normalizer_calc, rescale_high(obj))
        y_modifiy == Add(y_mins, Mul(Sub(y_max, y_mins), val))
    IN  Call(obj.Inv_Normalizer_calc, y_modifiy)

----------------------------------------------------------------------------
(* The state machine: one object is constructed from the caller's          *)
(* arguments, then its setters are called; a second object may be built    *)
(* from the same samples with other bounds and compared with the first.    *)

VARIABLES
    args,        \* the arguments of the constructor call
    self,        \* the object, None before construction and when it raised
    other,       \* a second object built from the same xx and yy, or None
    other_args,  \* the arguments the second object was built from
    raised,      \* the exception raised by the last call, "none" if it returned
    call,        \* the last call made: [op, arg]
    ncalls       \* the number of setter calls made on self

vars == <<args, self, other, other_args, raised, call, ncalls>>

NoArg == [py |-> "none", cell |-> <<>>]

\* strictly increasing integer x samples of 2..MaxLen entries
Grids ==
    UNION {{[i \in 1..n |-> Num(s[i])] :
              s \in {t \in [1..n -> 0..MaxX] :
                        \A i \in 1..(n-1) : t[i] < t[i+1]}} : n \in 2..MaxLen}

\* non-negative integer densities on n samples
Densities(n) == {[i \in 1..n |-> Num(s[i])] : s \in [1..n -> 0..MaxY]}

\* a minimum or maximum argument: nan (the default) or a float
CallerBounds == {NaN} \cup {Num(i) : i \in 0..MaxX}

\* the concrete scenario: five unit samples on 0..4, default bounds
Scenario ==
    [xx |-> <<Num(0), Num(1), Num(2), Num(3), Num(4)>>,
     yy |-> <<Num(1), Num(1), Num(1), Num(1), Num(1)>>,
     minimum |-> NaN, maximum |-> NaN]

\* constructor arguments explored for the build
BuildArgs ==
    {Scenario} \cup
    UNION {[xx : {g}, yy : Densities(Len(g)),
            minimum : CallerBounds, maximum : CallerBounds] : g \in Grids}

\* constructor arguments followed by setter calls: three samples with a
\* positive density at each, any bounds
CallArgs ==
    {a \in BuildArgs : /\ a.xx = <<Num(0), Num(1), Num(2)>>
                       /\ \A i \in 1..Len(a.yy) : a.yy[i] = Num(1)
                       /\ a.minimum \in {NaN, Num(1)}
                       /\ a.maximum = NaN}

\* constructor arguments of the first of two compared objects: a positive
\* density at each sample, any minimum, the default maximum
PairArgs ==
    {a \in BuildArgs : /\ \A i \in 1..Len(a.yy) : Lt(Num(0), a.yy[i])
                       /\ a.maximum = NaN}

\* values handed to the minimum and maximum setters
BoundInputs ==
    {Float(Num(i)) : i \in {-1, 0, 1, 2, MaxX + 1}}
    \cup {PyInt(-1), PyInt(1)}
    \cup {NdArray(<<Num(1), Num(2)>>), NdArray(<<Num(-1), Num(MaxX + 1)>>)}

\* values handed to the yy setter for n samples
YYInputs(n) == {y \in Densities(n) : y[n] = Num(MaxY)}

InitWith(A) ==
    /\ args \in A
    /\ self = None
    /\ other = None
    /\ other_args = [minimum |-> NaN, maximum |-> NaN]
    /\ raised = "none"
    /\ call = [op |-> "none", arg |-> NoArg]
    /\ ncalls = 0

Init == InitWith(CallArgs)

InitBuild == InitWith(BuildArgs)

InitPair == InitWith(PairArgs)

\* self = TransInterped(xx, yy, minimum, maximum)
Construct ==
    /\ call.op = "none"
    /\ LET r == __init__(args.xx, args.yy, args.minimum, args.maximum)
       IN  /\ self' = r.obj
           /\ raised' = r.exc
    /\ call' = [op |-> "__init__", arg |-> NoArg]
    /\ UNCHANGED <<args, other, other_args, ncalls>>

\* other = TransInterped(xx, yy, minimum, maximum) with other bounds
ConstructOther ==
    /\ self # None
    /\ call.op = "__init__"
    /\ \E lo \in CallerBounds, hi \in CallerBounds :
          LET r == __init__(args.xx, args.yy, lo, hi)
          IN  /\ other' = r.obj
              /\ raised' = r.exc
              /\ other_args' = [minimum |-> lo, maximum |-> hi]
    /\ call' = [op |-> "other", arg |-> NoArg]
    /\ UNCHANGED <<args, self, ncalls>>

\* self.minimum = v
SetMinimum ==
    /\ self # None
    /\ other = None
    /\ ncalls < MaxCalls
    /\ \E v \in BoundInputs :
          LET r == minimum_setter(self, v)
          IN  /\ self' = r.obj
              /\ raised' = r.exc
              /\ call' = [op |-> "minimum", arg |-> v]
    /\ ncalls' = ncalls + 1
    /\ UNCHANGED <<args, other, other_args>>

\* self.maximum = v
SetMaximum ==
    /\ self # None
    /\ other = None
    /\ ncalls < MaxCalls
    /\ \E v \in BoundInputs :
          LET r == maximum_setter(self, v)
          IN  /\ self' = r.obj
              /\ raised' = r.exc
              /\ call' = [op |-> "maximum", arg |-> v]
    /\ ncalls' = ncalls + 1
    /\ UNCHANGED <<args, other, other_args>>

\* self.yy = y
SetYY ==
    /\ self # None
    /\ other = None
    /\ ncalls < MaxCalls
    /\ \E y \in YYInputs(Len(args.xx)) :
          LET r == yy_setter(self, y)
          IN  /\ self' = r.obj
              /\ raised' = r.exc
              /\ call' = [op |-> "yy", arg |-> [py |-> "list", cell |-> y]]
    /\ ncalls' = ncalls + 1
    /\ UNCHANGED <<args, other, other_args>>

Next == Construct \/ SetMinimum \/ SetMaximum \/ SetYY

Spec == Init /\ [][Next]_vars

NextBuild == Construct

SpecBuild == InitBuild /\ [][NextBuild]_vars

NextPair == Construct \/ ConstructOther

SpecPair == InitPair /\ [][NextPair]_vars

----------------------------------------------------------------------------
(* Vocabulary of the properties.                                           *)

Constructed == self # None

\* the caller's bounds clamped to the samples, as the contract words it:
\* minimum = max(min(xx), caller minimum), maximum = min(max(xx), caller
\* maximum), a bound that was not supplied being the limit itself
ClampedMin(xx, lo) ==
    IF IsNaN(lo) \/ Lt(lo, py_min(xx)) THEN py_min(xx) ELSE lo

ClampedMax(xx, hi) ==
    IF IsNaN(hi) \/ Lt(py_max(xx), hi) THEN py_max(xx) ELSE hi

\* every number of the bound v is below lim / within [lo, hi]
SomeBelow(v, lim) == \E i \in 1..Len(v.cell) : Lt(v.cell[i], lim)

SomeAbove(v, lim) == \E i \in 1..Len(v.cell) : Lt(lim, v.cell[i])

Within(v, lo, hi) ==
    \A i \in 1..Len(v.cell) : Le(lo, v.cell[i]) /\ Le(v.cell[i], hi)

\* the total integral the build divided the samples by is positive
PositiveTotal(obj) == Lt(Num(0), obj.YYnotNorm[Len(obj.YYnotNorm)])

\* unit values at which rescale is probed
UnitVals == {Rat(k, UnitDen) : k \in 0..UnitDen}

\* arguments at which cdf is probed: the grid, the midpoints of its
\* intervals, and points on either side of it
Probes(obj) ==
    LET g == Flat(obj.xx)
        n == Len(g)
    IN  {g[i] : i \in 1..n}
        \cup {Mul(Add(g[i], g[i+1]), <<1, 2>>) : i \in 1..(n-1)}
        \cup {Sub(g[1], Num(1)), Sub(g[1], <<1, 2>>),
              Add(g[n], <<1, 2>>), Add(g[n], Num(1))}

\* the interpolants and cumulative arrays of the one-shot build
Built(obj) ==
    <<obj.probability_density, obj.cumulative_distribution,
      obj.inverse_cumulative_distribution, obj.Normalizer_calc,
      obj.Inv_Normalizer_calc, obj.YY, obj.YYnotNorm>>

----------------------------------------------------------------------------
(* The claims.                                                             *)

\* C1: in every state after construction and any setter calls, the stored
\* bounds satisfy min_limit <= minimum <= maximum <= max_limit (for every
\* number of an array bound).
C1_BoundsOrdered ==
    Constructed =>
        \A i \in 1..BLen(self._minimum.cell, self._maximum.cell) :
            /\ Le(self.min_limit, Bcast(self._minimum.cell, i))
            /\ Le(Bcast(self._minimum.cell, i), Bcast(self._maximum.cell, i))
            /\ Le(Bcast(self._maximum.cell, i), self.max_limit)

\* C2: construction raises, and produces no object, whenever the caller's
\* bounds clamped to the samples give minimum > maximum.
C2_ConflictRaises ==
    (call.op = "__init__" /\ Lt(ClampedMax(args.xx, args.maximum),
                                ClampedMin(args.xx, args.minimum)))
        => (self = None /\ raised = "ValueError")

C2_Witness ==
    /\ call.op = "__init__"
    /\ ~IsNaN(args.minimum) /\ ~IsNaN(args.maximum)
    /\ Lt(args.maximum, args.minimum)
    /\ self = None /\ raised = "ValueError"

\* C3: a minimum below min_limit (a maximum above max_limit) raises a
\* range error and leaves the stored bound as it was; any minimum or
\* maximum, scalar or array, within [min_limit, max_limit] is stored.
C3_SetterContract ==
    [][/\ call'.op = "minimum" =>
            /\ SomeBelow(call'.arg, self.min_limit) =>
                  (raised' = "ValueError" /\ self'._minimum = self._minimum)
            /\ Within(call'.arg, self.min_limit, self.max_limit) =>
                  (raised' = "none" /\ self'._minimum.cell = call'.arg.cell)
       /\ call'.op = "maximum" =>
            /\ SomeAbove(call'.arg, self.max_limit) =>
                  (raised' = "ValueError" /\ self'._maximum = self._maximum)
            /\ Within(call'.arg, self.min_limit, self.max_limit) =>
                  (raised' = "none" /\ self'._maximum.cell = call'.arg.cell)
      ]_vars

C6_StoredYYNormalised ==
    (Constructed /\ self.xx.ndim = 1 /\ self._yy.ndim = 1)
        => Eq(trapz(Flat(self._yy), Flat(self.xx)), Num(1))

\* C7: after construction from non-negative samples with a positive total
\* integral, cdf is non-decreasing, is 1 at xx[-1], 0 below xx[0] and 1
\* above xx[-1].
C7_CdfShape ==
    (Constructed /\ PositiveTotal(self)) =>
        LET g == Flat(self.xx)
        IN  /\ \A p \in Probes(self), q \in Probes(self) :
                  Lt(p, q) => Le(cdf(self, p), cdf(self, q))
            /\ cdf(self, g[Len(g)]) = Num(1)
            /\ \A p \in Probes(self) :
                  /\ Lt(p, g[1]) => cdf(self, p) = Num(0)
                  /\ Lt(g[Len(g)], p) => cdf(self, p) = Num(1)

C7_Witness ==
    /\ Constructed /\ PositiveTotal(self)
    /\ Lt(self.min_limit, self.trans_min)
    /\ \E i \in 1..(Len(self.YY) - 1) : self.YY[i] = self.YY[i+1]

\* C8: rescale(0) has the unnormalised cumulative mass of trans_min,
\* rescale(1) that of trans_max, and rescale is non-decreasing on [0,1].
C8_RescaleEnds ==
    Constructed =>
        /\ Eq(Call(self.Normalizer_calc, rescale(self, Num(0))),
              Call(self.Normalizer_calc, self.trans_min))
        /\ Eq(Call(self.Normalizer_calc, rescale(self, Num(1))),
              Call(self.Normalizer_calc, self.trans_max))
        /\ \A u \in UnitVals, v \in UnitVals :
              Lt(u, v) => Le(rescale(self, u), rescale(self, v))

C8_Witness ==
    /\ Constructed /\ PositiveTotal(self)
    /\ self.YYnotNorm[2] = Num(0)
    /\ Lt(self.trans_min, rescale(self, Num(0)))
    /\ Lt(rescale(self, Num(0)), rescale(self, Num(1)))

\* C9: xx = [0,1,2,3,4], yy = [1,1,1,1,1] with default bounds constructs
\* an object with prob(2) = 0.25, cdf(4) = 1, cdf(-1) = 0, rescale(0.5) = 2.
C9_Scenario ==
    (args = Scenario /\ call.op # "none") =>
        /\ Constructed
        /\ prob(self, Num(2)) = <<1, 4>>
        /\ cdf(self, Num(4)) = Num(1)
        /\ cdf(self, Num(-1)) = Num(0)
        /\ rescale(self, <<1, 2>>) = Num(2)

C9_Witness ==
    /\ args = Scenario /\ Constructed
    /\ self.YYnotNorm[5] = Num(4)

====
